---- MODULE Spec2Model ----
(* Model of the frontmatter-injection script of the Vue documentation     *)
(* site (src/unnamed/part_007).  The script changes to the content        *)
(* directory, lets find deliver every .md/.mdx path to a while-read loop, *)
(* and for each path whose grep for "^---" fails, builds temp_file from a *)
(* generated header plus the file's content and moves it over the file.   *)
(*                                                                        *)
(* File contents and file names are sequences of one-character strings    *)
(* (bytes); the file system maps paths to contents.                       *)
EXTENDS Naturals, Sequences, FiniteSets

\* ------------------------------------------------------------------ bounds
\* Largest number of files in the initial tree.
MaxFiles == 2
\* Number of successive runs of the script.
MaxRuns == 2

\* ------------------------------------------------------------- characters
NL == "\n"
Hy == "-"
BSlash == "\\"

Lower == <<"a","b","c","d","e","f","g","h","i","j","k","l","m",
           "n","o","p","q","r","s","t","u","v","w","x","y","z">>
Upper == <<"A","B","C","D","E","F","G","H","I","J","K","L","M",
           "N","O","P","Q","R","S","T","U","V","W","X","Y","Z">>

\* [a-z] of the sed expression
IsLower(c) == \E i \in 1..Len(Lower) : Lower[i] = c

\* \U of the sed replacement, applied to one character
ToUpper(c) ==
  IF IsLower(c) THEN Upper[CHOOSE i \in 1..Len(Lower) : Lower[i] = c] ELSE c

\* --------------------------------------------------------------- strings
RECURSIVE Concat(_)
Concat(ss) == IF ss = <<>> THEN <<>> ELSE Head(ss) \o Concat(Tail(ss))

IsPrefix(p, s) == Len(p) <= Len(s) /\ SubSeq(s, 1, Len(p)) = p

IsSuffix(p, s) ==
  Len(p) <= Len(s) /\ SubSeq(s, Len(s) - Len(p) + 1, Len(s)) = p

\* ----------------------------------------------------------- directories
\* The directory the script is started in.
Invocation == "."
\* The directory of line 4, relative to the invocation directory.
ContentDir == "src/content/docs/vue"
\* A directory below the content directory.
SubDir == "src/content/docs/vue/01_getting-started"

Dirs == {Invocation, ContentDir, SubDir}

\* d is root or lies below it: the directories "find ." walks from root.
Under(d, root) ==
  \/ d = root
  \/ root = Invocation
  \/ root = ContentDir /\ d = SubDir

\* ------------------------------------------------------------ file names
N_a_mdx == <<"a",".","m","d","x">>
N_quick_start_mdx ==
  <<"q","u","i","c","k","-","s","t","a","r","t",".","m","d","x">>
N_introduction_md ==
  <<"i","n","t","r","o","d","u","c","t","i","o","n",".","m","d">>
N_notes_txt == <<"n","o","t","e","s",".","t","x","t">>
N_readme_md == <<"r","e","a","d","m","e",".","m","d">>
\* a name with a backslash in it: a\b.md
N_a_bs_b_md == <<"a","\\","b",".","m","d">>
\* the scratch file of lines 25, 28 and 31
TempName == <<"t","e","m","p","_","f","i","l","e">>

Path(d, n) == [dir |-> d, name |-> n]

\* The value of $file before the first read.
NoPath == Path("", <<>>)

\* temp_file is a relative name: it lives in the working directory.
TempPath(d) == Path(d, TempName)

\* "read file" without -r: a backslash is removed and the character after
\* it is kept as it is (the lines find prints start with "./" and end in
\* .md or .mdx, so there is no leading or trailing blank to strip).
RECURSIVE ReadLine(_)
ReadLine(s) ==
  IF s = <<>> THEN <<>>
  ELSE IF Head(s) = BSlash
       THEN IF Len(s) >= 2 THEN <<s[2]>> \o ReadLine(SubSeq(s, 3, Len(s)))
            ELSE <<>>
       ELSE <<Head(s)>> \o ReadLine(Tail(s))

\* The paths the initial tree may hold.
Candidates ==
  { Path(ContentDir, N_a_mdx),
    Path(SubDir, N_quick_start_mdx),
    Path(ContentDir, N_introduction_md),
    Path(ContentDir, N_a_bs_b_md),
    Path(ContentDir, N_notes_txt),
    Path(ContentDir, TempName),
    Path(Invocation, N_readme_md) }

\* Every path the script can name.
AllPaths ==
  Candidates
    \cup { Path(p.dir, ReadLine(p.name)) : p \in Candidates }
    \cup { TempPath(d) : d \in {Invocation, ContentDir} }

\* -------------------------------------------------------------- contents
\* The value of a path that names no file. It is no content: every
\* element of a content is one character.
NoFile == <<"(no file)">>

C_empty == <<>>
\* hello, without a final newline
C_hello == <<"h","e","l","l","o">>
\* a file that has a header: ---\ntitle: X\n---\nbody
C_header ==
  <<"-","-","-","\n","t","i","t","l","e",":"," ","X","\n",
    "-","-","-","\n","b","o","d","y">>
\* no header, a horizontal rule in the body: h\n---\n
C_rule == <<"h","\n","-","-","-","\n">>
\* a first line that is longer than the delimiter: ----\n
C_long == <<"-","-","-","-","\n">>

Contents == {C_empty, C_hello, C_header, C_rule, C_long}

\* The contents of the trees with something wrong: one file without a
\* header, one with.
ContentsIO == {C_hello, C_header}


\* -------------------------------------------------- the script's commands
\* find's -name "*.md" -o -name "*.mdx" (line 7)
MatchesName(n) ==
  \/ IsSuffix(<<".","m","d">>, n)
  \/ IsSuffix(<<".","m","d","x">>, n)

\* The place of the last "." of s, 0 if it has none.
LastDot(s) ==
  IF \E i \in 1..Len(s) : s[i] = "."
  THEN CHOOSE i \in 1..Len(s) :
         s[i] = "." /\ \A j \in (i+1)..Len(s) : s[j] # "."
  ELSE 0

\* basename "$file" | sed 's/\.[^.]*$//' (line 9): the name without its
\* last dot and what follows it.
StripExtension(n) ==
  IF LastDot(n) = 0 THEN n ELSE SubSeq(n, 1, LastDot(n) - 1)

\* echo "$filename" (line 12): bash's echo takes an argument made of a
\* hyphen and the letters n, e, E as options and then prints no text.
Echo(s) ==
  IF Len(s) >= 2 /\ s[1] = Hy /\ \A i \in 2..Len(s) : s[i] \in {"n","e","E"}
  THEN <<>>
  ELSE s

\* sed -r 's/(^|-)([a-z])/\U\2/g' (line 12), scanning s from place i: a
\* lowercase letter at the start, or a hyphen and the lowercase letter
\* after it, is replaced by the letter in upper case.
RECURSIVE SedCapitalize(_, _)
SedCapitalize(s, i) ==
  IF i > Len(s) THEN <<>>
  ELSE IF i = 1 /\ IsLower(s[1])
       THEN <<ToUpper(s[1])>> \o SedCapitalize(s, 2)
  ELSE IF s[i] = Hy /\ i + 1 <= Len(s) /\ IsLower(s[i+1])
       THEN <<ToUpper(s[i+1])>> \o SedCapitalize(s, i + 2)
  ELSE <<s[i]>> \o SedCapitalize(s, i + 1)

\* sed 's/-/ /g' (line 12)
SedHyphenToSpace(s) == [i \in 1..Len(s) |-> IF s[i] = Hy THEN " " ELSE s[i]]

\* title=$(echo "$filename" | sed ... | sed ...) (line 12)
DeriveTitle(filename) ==
  SedHyphenToSpace(SedCapitalize(Echo(filename), 1))

\* Mutant of GrepMatches: only the first line of the file is looked at.
GrepMatches_FirstLineOnly(c) ==
  /\ 3 <= Len(c)
  /\ c[1] = Hy /\ c[2] = Hy /\ c[3] = Hy

\* Mutant of GrepMatches: the pattern is typed with four hyphens.
GrepMatches_FourHyphens(c) ==
  \E i \in 1..Len(c) :
    /\ IF i = 1 THEN TRUE ELSE c[i-1] = NL
    /\ i + 3 <= Len(c)
    /\ c[i] = Hy /\ c[i+1] = Hy /\ c[i+2] = Hy /\ c[i+3] = Hy

\* grep -q "^---" on content c (line 15): some line of c begins with
\* three hyphens.
GrepMatches(c) ==
  \E i \in 1..Len(c) :
    /\ IF i = 1 THEN TRUE ELSE c[i-1] = NL
    /\ i + 2 <= Len(c)
    /\ c[i] = Hy /\ c[i+1] = Hy /\ c[i+2] = Hy

T_delimiter == <<"-","-","-">>
T_title == <<"t","i","t","l","e",":"," ">>
T_description ==
  <<"d","e","s","c","r","i","p","t","i","o","n",":"," ",
    "L","e","a","r","n"," ","a","b","o","u","t"," ">>
T_in_vue == <<" ","i","n"," ","V","u","e",".","j","s">>
T_heading == <<"#"," ">>
T_content_for == <<"C","o","n","t","e","n","t"," ","f","o","r"," ">>
T_goes_here == <<" ","g","o","e","s"," ","h","e","r","e",".">>

\* Mutant of Frontmatter: the block is typed indented by one space, so
\* that no line of it begins with three hyphens.
Frontmatter_Indented(title) ==
  Concat(<< <<" ">>, T_delimiter, <<NL>>,
            <<" ">>, T_title, title, <<NL>>,
            <<" ">>, T_description, title, T_in_vue, <<NL>>,
            <<" ">>, T_delimiter, <<NL>>,
            <<NL>>,
            T_heading, title, <<NL>>,
            <<NL>>,
            T_content_for, title, T_goes_here, <<NL>>,
            <<NL>> >>)

\* Mutant of Frontmatter: the two delimiter lines are typed with two
\* hyphens.
Frontmatter_ShortDelimiter(title) ==
  Concat(<< <<Hy, Hy, NL>>,
            T_title, title, <<NL>>,
            T_description, title, T_in_vue, <<NL>>,
            <<Hy, Hy, NL>>,
            <<NL>>,
            T_heading, title, <<NL>>,
            <<NL>>,
            T_content_for, title, T_goes_here, <<NL>>,
            <<NL>> >>)

\* What echo "---...goes here.\n" prints (lines 17-25): the text between
\* the quotes and echo's own newline.
Frontmatter(title) ==
  Concat(<< T_delimiter, <<NL>>,
            T_title, title, <<NL>>,
            T_description, title, T_in_vue, <<NL>>,
            T_delimiter, <<NL>>,
            <<NL>>,
            T_heading, title, <<NL>>,
            <<NL>>,
            T_content_for, title, T_goes_here, <<NL>>,
            <<NL>> >>)

\* ------------------------------------------------------------------ state
VARIABLES
  fs,          \* the file system: path -> content, or NoFile
  dirExists,   \* the content directory exists
  unreadable,  \* paths whose file cannot be opened for reading
  readonly,    \* directories in which no entry can be made or removed
  cwd,         \* the shell's working directory
  pc,          \* the script's position
  visited,     \* paths find has delivered to the loop in this run
  file,        \* $file
  filename,    \* $filename
  title,       \* $title
  out,         \* the lines printed by this run
  run,         \* the number of this run
  orig,        \* history: the file system before the first run
  snap,        \* history: the file system when this run started
  failed,      \* history: paths a command of this run failed to read
               \* or to replace
  fresh,       \* paths whose directory entry mv has made anew since find
               \* last printed them
  moved,       \* history: the paths mv has replaced in this run, in order
  examined,    \* history: path -> $title, for the paths grep has been
               \* run on in this run
  readFailed,  \* history: some grep or cat could not open its file
  other        \* the shell of a second script running on the same tree

vars == <<fs, dirExists, unreadable, readonly, cwd, pc, visited, file,
          filename, title, out, run, orig, snap, failed, fresh, moved,
          examined, readFailed, other>>

\* The file system holding the files of S with the contents f gives them.
TreeOf(S, f) == [p \in AllPaths |-> IF p \in S THEN f[p] ELSE NoFile]

\* The trees of at most MaxFiles files with contents from CS.
Trees(CS) ==
  UNION { { TreeOf(S, f) : f \in [S -> CS] } :
          S \in { S \in SUBSET Candidates : Cardinality(S) <= MaxFiles } }

Files(t) == { p \in AllPaths : t[p] # NoFile }

\* The second shell when no second script runs.
NoShell == [pc |-> "off"]

\* The shell at the start of a run (line 1).
Start ==
  /\ cwd = Invocation
  /\ pc = "cd"
  /\ visited = {}
  /\ file = NoPath
  /\ filename = <<>>
  /\ title = <<>>
  /\ out = <<>>
  /\ failed = {}
  /\ fresh = {}
  /\ moved = <<>>
  /\ examined = <<>>

\* A tree that meets the script's expectations: the content directory
\* exists, every file can be read and every directory can be written.
Init ==
  /\ fs \in Trees(Contents)
  /\ dirExists = TRUE
  /\ unreadable = {}
  /\ readonly = {}
  /\ Start
  /\ run = 1
  /\ orig = fs
  /\ snap = fs
  /\ readFailed = FALSE
  /\ other = NoShell

\* A tree with at most one thing wrong: the content directory is missing,
\* one file is unreadable, or one directory is read-only.
InitIO ==
  /\ fs \in Trees(ContentsIO)
  /\ dirExists \in BOOLEAN
  /\ dirExists = FALSE => \A p \in Files(fs) : p.dir = Invocation
  /\ unreadable \in {{}} \cup { {p} : p \in Files(fs) }
  /\ readonly \in {{}} \cup { {d} : d \in Dirs }
  /\ Cardinality(unreadable) + Cardinality(readonly)
       + (IF dirExists THEN 0 ELSE 1) <= 1
  /\ Start
  /\ run = 1
  /\ orig = fs
  /\ snap = fs
  /\ readFailed = FALSE
  /\ other = NoShell

\* --------------------------------------------------------------- actions
\* line 4: cd src/content/docs/vue
Cd ==
  /\ pc = "cd"
  /\ dirExists
  /\ cwd' = ContentDir
  /\ pc' = "read"
  /\ UNCHANGED <<fs, dirExists, unreadable, readonly, visited, file,
                 filename, title, out, run, orig, snap, failed,
                 fresh, moved, examined, readFailed, other>>

\* line 4, the directory is missing: cd prints an error and the script
\* goes on where it is (there is no "set -e" and no "|| exit").
CdFail ==
  /\ pc = "cd"
  /\ ~dirExists
  /\ pc' = "read"
  /\ UNCHANGED <<fs, dirExists, unreadable, readonly, cwd, visited, file,
                 filename, title, out, run, orig, snap, failed,
                 fresh, moved, examined, readFailed, other>>

\* find . -type f \( -name "*.md" -o -name "*.mdx" \) (line 7): p is a
\* file below the working directory with a matching name.
Found(t, p) ==
  /\ t[p] # NoFile
  /\ Under(p.dir, cwd)
  /\ MatchesName(p.name)

\* Mutant of ReadFile: find does not keep track of what it has printed.
ReadFile_Forget(p) ==
  /\ pc = "read"
  /\ Found(fs, p)
  /\ file' = Path(p.dir, ReadLine(p.name))
  /\ pc' = "basename"
  /\ fresh' = fresh \ {p}
  /\ UNCHANGED <<fs, dirExists, unreadable, readonly, cwd, visited,
                 filename, title, out, run, orig, snap, failed,
                 moved, examined, readFailed, other>>

\* line 7: find prints p and "read file" takes the line. find prints a
\* file once; a path whose directory entry mv has made anew while find
\* walks may be printed again.
ReadFile(p) ==
  /\ pc = "read"
  /\ Found(fs, p)
  /\ p \notin visited \ fresh
  /\ visited' = visited \cup {p}
  /\ file' = Path(p.dir, ReadLine(p.name))
  /\ pc' = "basename"
  /\ fresh' = fresh \ {p}
  /\ UNCHANGED <<fs, dirExists, unreadable, readonly, cwd, filename, title,
                 out, run, orig, snap, failed,
                 moved, examined, readFailed, other>>

\* Mutant of Basename: basename is left out and the extension is cut from
\* the path as find prints it.
Basename_WholePath ==
  /\ pc = "basename"
  /\ filename' =
       StripExtension(
         (IF file.dir = SubDir
          THEN <<".","/","0","1","_","g","e","t","t","i","n","g","-",
                 "s","t","a","r","t","e","d","/">>
          ELSE <<".","/">>) \o file.name)
  /\ pc' = "title"
  /\ UNCHANGED <<fs, dirExists, unreadable, readonly, cwd, visited, file,
                 title, out, run, orig, snap, failed,
                 fresh, moved, examined, readFailed, other>>

\* line 9
Basename ==
  /\ pc = "basename"
  /\ filename' = StripExtension(file.name)
  /\ pc' = "title"
  /\ UNCHANGED <<fs, dirExists, unreadable, readonly, cwd, visited, file,
                 title, out, run, orig, snap, failed,
                 fresh, moved, examined, readFailed, other>>

\* line 12
Title ==
  /\ pc = "title"
  /\ title' = DeriveTitle(filename)
  /\ pc' = "grep"
  /\ UNCHANGED <<fs, dirExists, unreadable, readonly, cwd, visited, file,
                 filename, out, run, orig, snap, failed,
                 fresh, moved, examined, readFailed, other>>

Readable(p) == fs[p] # NoFile /\ p \notin unreadable

\* line 15, grep exits 0: the file is skipped.
GrepFound ==
  /\ pc = "grep"
  /\ Readable(file)
  /\ GrepMatches(fs[file])
  /\ pc' = "read"
  /\ examined' = [q \in DOMAIN examined \cup {file} |->
                    IF q = file THEN title ELSE examined[q]]
  /\ UNCHANGED <<fs, dirExists, unreadable, readonly, cwd, visited, file,
                 filename, title, out, run, orig, snap, failed,
                 fresh, moved, readFailed, other>>

\* line 15, grep exits 1: no line matches.
GrepNotFound ==
  /\ pc = "grep"
  /\ Readable(file)
  /\ ~GrepMatches(fs[file])
  /\ pc' = "echo_temp"
  /\ examined' = [q \in DOMAIN examined \cup {file} |->
                    IF q = file THEN title ELSE examined[q]]
  /\ UNCHANGED <<fs, dirExists, unreadable, readonly, cwd, visited, file,
                 filename, title, out, run, orig, snap, failed,
                 fresh, moved, readFailed, other>>

\* line 15, grep exits 2: it cannot open the file. "!" makes the
\* condition true, as for exit 1.
GrepError ==
  /\ pc = "grep"
  /\ ~Readable(file)
  /\ pc' = "echo_temp"
  /\ failed' = failed \cup {file}
  /\ examined' = [q \in DOMAIN examined \cup {file} |->
                    IF q = file THEN title ELSE examined[q]]
  /\ readFailed' = TRUE
  /\ UNCHANGED <<fs, dirExists, unreadable, readonly, cwd, visited, file,
                 filename, title, out, run, orig, snap,
                 fresh, moved, other>>

\* The shell can open p for writing: it is there, or it can be created.
CanOpen(p) == fs[p] # NoFile \/ p.dir \notin readonly

\* Mutant of WriteTemp: the header is written over "$file" itself.
WriteTemp_InPlace ==
  /\ pc = "echo_temp"
  /\ CanOpen(TempPath(cwd))
  /\ fs' = [fs EXCEPT ![file] = Frontmatter(title)]
  /\ pc' = "cat"
  /\ UNCHANGED <<dirExists, unreadable, readonly, cwd, visited, file,
                 filename, title, out, run, orig, snap, failed,
                 fresh, moved, examined, readFailed, other>>

\* lines 17-25: echo "..." > temp_file
WriteTemp ==
  /\ pc = "echo_temp"
  /\ CanOpen(TempPath(cwd))
  /\ fs' = [fs EXCEPT ![TempPath(cwd)] = Frontmatter(title)]
  /\ pc' = "cat"
  /\ UNCHANGED <<dirExists, unreadable, readonly, cwd, visited, file,
                 filename, title, out, run, orig, snap, failed,
                 fresh, moved, examined, readFailed, other>>

\* lines 17-25, the redirection fails: nothing is written.
WriteTempError ==
  /\ pc = "echo_temp"
  /\ ~CanOpen(TempPath(cwd))
  /\ pc' = "cat"
  /\ UNCHANGED <<fs, dirExists, unreadable, readonly, cwd, visited, file,
                 filename, title, out, run, orig, snap, failed,
                 fresh, moved, examined, readFailed, other>>

\* Mutant of Cat: the redirection is typed ">" and not ">>".
Cat_Truncate ==
  /\ pc = "cat"
  /\ CanOpen(TempPath(cwd))
  /\ Readable(file)
  /\ fs' = [fs EXCEPT ![TempPath(cwd)] = fs[file]]
  /\ pc' = "mv"
  /\ UNCHANGED <<dirExists, unreadable, readonly, cwd, visited, file,
                 filename, title, out, run, orig, snap, failed,
                 fresh, moved, examined, readFailed, other>>

\* line 28: cat "$file" >> temp_file
Cat ==
  /\ pc = "cat"
  /\ CanOpen(TempPath(cwd))
  /\ Readable(file)
  /\ fs' = [fs EXCEPT ![TempPath(cwd)] =
              (IF @ = NoFile THEN <<>> ELSE @) \o fs[file]]
  /\ pc' = "mv"
  /\ UNCHANGED <<dirExists, unreadable, readonly, cwd, visited, file,
                 filename, title, out, run, orig, snap, failed,
                 fresh, moved, examined, readFailed, other>>

\* line 28, the redirection fails or cat cannot open "$file": nothing is
\* appended.
CatError ==
  /\ pc = "cat"
  /\ ~(CanOpen(TempPath(cwd)) /\ Readable(file))
  /\ pc' = "mv"
  /\ failed' = failed \cup {file}
  /\ readFailed' = (readFailed \/ ~Readable(file))
  /\ UNCHANGED <<fs, dirExists, unreadable, readonly, cwd, visited, file,
                 filename, title, out, run, orig, snap,
                 fresh, moved, examined, other>>

\* mv can rename temp_file to "$file".
CanMove ==
  /\ fs[TempPath(cwd)] # NoFile
  /\ cwd \notin readonly
  /\ file.dir \notin readonly

\* line 31: mv temp_file "$file". The file at "$file" is now the one the
\* script created, which its owner can read.
Mv ==
  /\ pc = "mv"
  /\ CanMove
  /\ fs' = [fs EXCEPT ![file] = fs[TempPath(cwd)], ![TempPath(cwd)] = NoFile]
  /\ unreadable' = unreadable \ {file}
  /\ pc' = "echo_added"
  /\ fresh' = fresh \cup {file}
  /\ moved' = Append(moved, file)
  /\ UNCHANGED <<dirExists, readonly, cwd, visited, file, filename, title,
                 out, run, orig, snap, failed,
                 examined, readFailed, other>>

\* line 31, mv fails: nothing is renamed.
MvError ==
  /\ pc = "mv"
  /\ ~CanMove
  /\ pc' = "echo_added"
  /\ failed' = failed \cup {file}
  /\ UNCHANGED <<fs, dirExists, unreadable, readonly, cwd, visited, file,
                 filename, title, out, run, orig, snap,
                 fresh, moved, examined, readFailed, other>>

\* line 33
EchoAdded ==
  /\ pc = "echo_added"
  /\ out' = Append(out, <<"Added frontmatter to", file>>)
  /\ pc' = "read"
  /\ UNCHANGED <<fs, dirExists, unreadable, readonly, cwd, visited, file,
                 filename, title, run, orig, snap, failed,
                 fresh, moved, examined, readFailed, other>>

\* line 35: find has printed every matching file that was there when it
\* started and exits; read meets the end of the pipe and the loop ends.
\* (Whether find sees a file made during its walk is up to the file
\* system.)
LoopEnd ==
  /\ pc = "read"
  /\ \A p \in DOMAIN snap : Found(snap, p) => p \in visited
  /\ pc' = "echo_completed"
  /\ UNCHANGED <<fs, dirExists, unreadable, readonly, cwd, visited, file,
                 filename, title, out, run, orig, snap, failed,
                 fresh, moved, examined, readFailed, other>>

\* line 37
EchoCompleted ==
  /\ pc = "echo_completed"
  /\ out' = Append(out, <<"Completed adding frontmatter">>)
  /\ pc' = "done"
  /\ UNCHANGED <<fs, dirExists, unreadable, readonly, cwd, visited, file,
                 filename, title, run, orig, snap, failed,
                 fresh, moved, examined, readFailed, other>>

\* The script is started again, in the same invocation directory.
NextRun ==
  /\ pc = "done"
  /\ run < MaxRuns
  /\ run' = run + 1
  /\ snap' = fs
  /\ cwd' = Invocation
  /\ pc' = "cd"
  /\ visited' = {}
  /\ file' = NoPath
  /\ filename' = <<>>
  /\ title' = <<>>
  /\ out' = <<>>
  /\ failed' = {}
  /\ fresh' = {}
  /\ moved' = <<>>
  /\ examined' = <<>>
  /\ UNCHANGED <<fs, dirExists, unreadable, readonly, orig, readFailed,
                 other>>

Next ==
  \/ Cd
  \/ \E p \in DOMAIN fs : ReadFile(p)
  \/ Basename
  \/ Title
  \/ GrepFound
  \/ GrepNotFound
  \/ GrepError
  \/ WriteTemp
  \/ Cat
  \/ CatError
  \/ Mv
  \/ EchoAdded
  \/ LoopEnd
  \/ EchoCompleted
  \/ NextRun

NextIO ==
  \/ Next
  \/ CdFail
  \/ WriteTempError
  \/ MvError

Spec == Init /\ [][Next]_vars

SpecIO == InitIO /\ [][NextIO]_vars

\* The files of the trees on which runs are followed to their end: two
\* documents at different depths and one file outside the content
\* directory.
LiveFiles ==
  { Path(ContentDir, N_a_mdx),
    Path(SubDir, N_quick_start_mdx),
    Path(Invocation, N_readme_md) }

\* A tree of these files with at most one thing wrong.
InitLive ==
  /\ InitIO
  /\ Files(fs) \subseteq LiveFiles

\* The shell runs the script's next command whenever there is one: the
\* script waits for no input and no lock.
SpecIOLive == InitLive /\ [][NextIO]_vars /\ WF_vars(NextIO)

\* ------------------------------------------------- two scripts at a time
\* The variables of the running shell.
Shell ==
  [cwd |-> cwd, pc |-> pc, visited |-> visited, file |-> file,
   filename |-> filename, title |-> title, out |-> out, fresh |-> fresh]

\* A second shell at line 1.
FirstLine ==
  [cwd |-> Invocation, pc |-> "cd", visited |-> {}, file |-> NoPath,
   filename |-> <<>>, title |-> <<>>, out |-> <<>>, fresh |-> {}]

\* The files of the trees two scripts are run on: two documents, in
\* different directories.
ParFiles == {Path(ContentDir, N_a_mdx), Path(SubDir, N_quick_start_mdx)}

\* Two scripts are started in the same invocation directory, on a tree
\* that meets the script's expectations.
InitPar ==
  /\ fs \in {t \in Trees(ContentsIO) : Files(t) \subseteq ParFiles}
  /\ dirExists = TRUE
  /\ unreadable = {}
  /\ readonly = {}
  /\ Start
  /\ run = 1
  /\ orig = fs
  /\ snap = fs
  /\ readFailed = FALSE
  /\ other = FirstLine

\* The scheduler takes the running script off the processor and lets the
\* other one run: each script keeps its own shell variables, the file
\* system (temp_file included) is the same for both. The running script
\* is at a command that reads or writes the file system (the order of the
\* other steps, which touch shell variables only, makes no difference).
Switch ==
  /\ pc \in {"read", "grep", "echo_temp", "cat", "mv", "done"}
  /\ other.pc \notin {"off", "done"}
  /\ other' = Shell
  /\ cwd' = other.cwd
  /\ pc' = other.pc
  /\ visited' = other.visited
  /\ file' = other.file
  /\ filename' = other.filename
  /\ title' = other.title
  /\ out' = other.out
  /\ fresh' = other.fresh
  /\ UNCHANGED <<fs, dirExists, unreadable, readonly, run, orig, snap,
                 failed, moved, examined, readFailed>>

\* Every file of these trees can be read, and temp_file can always be
\* made: grep and cat do not fail. mv fails when the other script has
\* moved temp_file away.
NextPar ==
  \/ Cd
  \/ \E p \in DOMAIN fs : ReadFile(p)
  \/ Basename
  \/ Title
  \/ GrepFound
  \/ GrepNotFound
  \/ WriteTemp
  \/ Cat
  \/ Mv
  \/ MvError
  \/ EchoAdded
  \/ LoopEnd
  \/ EchoCompleted
  \/ Switch

SpecPar == InitPar /\ [][NextPar]_vars

\* ------------------------------------------------ names of every shape
\* The longest generated file name, without its extension.
MaxNameLen == 3

\* One character of each kind the commands of lines 9, 12 tell apart: a
\* lowercase letter, a lowercase and an uppercase letter that are also
\* options of echo, the hyphen, the underscore, the dot, a digit, and
\* the backslash that read takes away.
NameChars == {"a", "e", "E", "-", "_", ".", "1", "\\"}

\* The names find's pattern *.md matches, of at most MaxNameLen
\* characters before the extension.
MdNames ==
  { s \o <<".","m","d">> :
      s \in UNION { [1..k -> NameChars] : k \in 1..MaxNameLen } }

\* The names the loop can come to from n: read takes n for another name,
\* the loop creates a file of that name, find prints it, and so on.
RECURSIVE ReadLines(_)
ReadLines(n) ==
  IF ReadLine(n) = n THEN {n} ELSE {n} \cup ReadLines(ReadLine(n))

\* The content directory holds a file named n without a header, and so
\* does the directory below it.
SameNameTree(n) ==
  LET P == {Path(ContentDir, n), Path(SubDir, n)}
      D == AllPaths \cup { Path(p.dir, m) : p \in P, m \in ReadLines(n) }
  IN [p \in D |-> IF p \in P THEN C_hello ELSE NoFile]

\* The script is started on a tree with two files of the same name.
InitTitle ==
  /\ fs \in { SameNameTree(n) : n \in MdNames }
  /\ dirExists = TRUE
  /\ unreadable = {}
  /\ readonly = {}
  /\ Start
  /\ run = 1
  /\ orig = fs
  /\ snap = fs
  /\ readFailed = FALSE
  /\ other = NoShell

\* One run of the script.
NextTitle ==
  \/ Cd
  \/ \E p \in DOMAIN fs : ReadFile(p)
  \/ Basename
  \/ Title
  \/ GrepFound
  \/ GrepNotFound
  \/ GrepError
  \/ WriteTemp
  \/ Cat
  \/ CatError
  \/ Mv
  \/ EchoAdded
  \/ LoopEnd
  \/ EchoCompleted

SpecTitle == InitTitle /\ [][NextTitle]_vars

\* ----------------------------------------------------------------- claims
\* p lies in the content directory or below it.
InContent(p) == p.dir \in {ContentDir, SubDir}

\* p is a .md/.mdx file of the initial tree under the content directory.
Document(p) ==
  /\ InContent(p)
  /\ MatchesName(p.name)
  /\ orig[p] # NoFile

\* c begins with a line that is exactly three hyphens.
LeadingDelimiter(c) ==
  /\ Len(c) >= 3
  /\ SubSeq(c, 1, 3) = T_delimiter
  /\ IF Len(c) = 3 THEN TRUE ELSE c[4] = NL

\* The title the script derives for the file at p.
TitleOf(p) == DeriveTitle(StripExtension(p.name))

C2_HeaderLines(t) ==
  T_delimiter \o <<NL>> \o T_title \o t \o <<NL>>
    \o T_description \o t \o T_in_vue \o <<NL>> \o T_delimiter \o <<NL>>

\* C2: when a run has completed, every .md/.mdx file under the content
\* directory whose content did not start with the delimiter line starts
\* with ---, a title: line with the title derived from its name, a
\* description: line with that title and the closing ---, and ends with
\* its original content.
C2_HeaderAdded ==
  pc = "done" =>
    \A p \in AllPaths :
      Document(p) /\ ~LeadingDelimiter(orig[p]) =>
        /\ IsPrefix(C2_HeaderLines(TitleOf(p)), fs[p])
        /\ IsSuffix(orig[p], fs[p])

\* The characters C3 splits a name on.
WordSeparators == {"-", "_"}

\* The title C3 describes: the segments between word separators, each
\* with its first letter in upper case, joined by single spaces.
TitleCase(s) ==
  [i \in 1..Len(s) |->
     IF s[i] \in WordSeparators THEN " "
     ELSE IF i = 1 THEN ToUpper(s[i])
     ELSE IF s[i-1] \in WordSeparators THEN ToUpper(s[i])
     ELSE s[i]]

\* C3: the title derived for a file is its name without the extension,
\* split on word separators, each segment capitalized, joined by single
\* spaces (quick-start.mdx gives Quick Start, introduction.md gives
\* Introduction).
C3_TitleCase ==
  pc = "grep" => title = TitleCase(StripExtension(file.name))

\* C4: after a run, a .md/.mdx file under the content directory is left
\* as it was exactly if its content began with a line that is solely ---;
\* every other one has been given a header.
C4_ExactLeadingLine ==
  pc = "done" /\ run = 1 =>
    \A p \in AllPaths :
      Document(p) => ((fs[p] = orig[p]) <=> LeadingDelimiter(orig[p]))

C6_OneHeaderEach ==
  pc = "done" =>
    \A p \in AllPaths :
      Document(p) =>
        /\ LeadingDelimiter(fs[p])
        /\ ~IsPrefix(Frontmatter(TitleOf(p)) \o Frontmatter(TitleOf(p)),
                     fs[p])

\* The template of C7 for title t, line by line.
C7_Template(t) ==
  T_delimiter \o <<NL>>
    \o T_title \o t \o <<NL>>
    \o T_description \o t \o T_in_vue \o <<NL>>
    \o T_delimiter \o <<NL>>
    \o <<NL>>
    \o T_heading \o t \o <<NL>>
    \o <<NL>>
    \o T_content_for \o t \o T_goes_here \o <<NL>>
    \o <<NL>>

C8_AbortsWithoutDirectory ==
  /\ ~dirExists => visited = {} /\ fs = orig
  /\ \A p \in AllPaths : fs[p] # orig[p] => InContent(p)

\* C9: a file that a command of the run failed to read or to replace has
\* the content it had before the run.
C9_FailureLeavesFile ==
  \A p \in failed : snap[p] # NoFile => fs[p] = snap[p]

\* C10: a file whose name ends neither in .md nor in .mdx has the content
\* it had before the first run.
C10_OtherFilesUntouched ==
  \A p \in AllPaths :
    orig[p] # NoFile /\ ~MatchesName(p.name) => fs[p] = orig[p]
\* C11: within one run a file is replaced at most once, also when find
\* prints its path again after the replacement: no path occurs twice
\* among the paths mv has replaced in this run.
C11_ReplacedAtMostOnce ==
  \A i, j \in 1..Len(moved) : moved[i] = moved[j] => i = j

\* find has printed a replaced path again, grep has examined the new file
\* and the loop has gone on to the next line.
C11_Witness ==
  /\ pc = "read"
  /\ \E i \in 1..Len(moved) : moved[i] = file
  /\ file \notin fresh

\* C12: when the completion message has been printed, grep has been run
\* on the path of every .md/.mdx file that was under the content
\* directory, at any depth, when the run started.
C12_EveryDocumentExamined ==
  pc = "done" =>
    \A p \in DOMAIN snap :
      (snap[p] # NoFile /\ InContent(p) /\ MatchesName(p.name))
        => p \in DOMAIN examined

\* A printed line is an "Added frontmatter to <path>" line.
IsAddedLine(l) == Len(l) = 2

\* The paths named by the "Added frontmatter to" lines of this run, in the
\* order of printing.
AddedPaths ==
  LET A == SelectSeq(out, IsAddedLine) IN [i \in 1..Len(A) |-> A[i][2]]

\* C13: the "Added frontmatter to" lines of a run name the files the run
\* has replaced, one line each, in the order of replacement and after the
\* replacement (only the file replaced last may still wait for its line);
\* no line names a file that was not replaced; the completion message is
\* printed once, as the last line.
C13_OneLinePerReplacement ==
  /\ Len(AddedPaths) <= Len(moved)
  /\ AddedPaths = SubSeq(moved, 1, Len(AddedPaths))
  /\ Len(moved) - Len(AddedPaths) <= (IF pc = "echo_added" THEN 1 ELSE 0)
  /\ \A i \in 1..Len(out) :
       ~IsAddedLine(out[i]) => pc = "done" /\ i = Len(out)
  /\ pc = "done" => out # <<>> /\ ~IsAddedLine(out[Len(out)])

\* C14: the title depends on the file's own name only: two files of the
\* same name, in whatever directories, are given the same title.
C14_TitleFromNameOnly ==
  \A p, q \in DOMAIN examined :
    p.name = q.name => examined[p] = examined[q]

\* Two files of the same name, one in the content directory and one in
\* 01_getting-started, have been given their title.
C14_Witness ==
  \E p, q \in DOMAIN examined :
    /\ p.dir = ContentDir /\ q.dir = SubDir
    /\ p.name = q.name
    /\ examined[p] # <<>>

\* What a run makes of the file at path p with content c, as far as it
\* depends on p and c alone: a .md/.mdx file under the content directory
\* with no line beginning with --- is given the header for its own
\* title, any other file is left as it is.
C15_Final(p, c) ==
  IF /\ InContent(p) /\ MatchesName(p.name)
     /\ ReadLine(p.name) = p.name
     /\ ~GrepMatches(c)
  THEN C7_Template(TitleOf(p)) \o c
  ELSE c

\* C15: when the first run is over, every file of the initial tree has
\* the content that its own path and initial content determine, whatever
\* the order in which find delivered the paths and whatever other files
\* the tree holds.
C15_NoOrderingDependency ==
  (pc = "done" /\ run = 1) =>
    \A p \in DOMAIN orig :
      orig[p] # NoFile => fs[p] = C15_Final(p, orig[p])

\* C16: a run that has been started comes to its end: every path find
\* delivers is dealt with and the completion message is printed.
C16_RunTerminates == (pc = "cd") ~> (pc = "done")

\* A run that has replaced a file and met a failing command has printed
\* the completion message.
C16_Witness ==
  /\ pc = "done"
  /\ moved # <<>>
  /\ failed # {}

\* C17: when two scripts have run at the same time on one tree, their
\* commands interleaved, and both have ended, every .md/.mdx file under
\* the content directory has its original content, or the header for its
\* own title followed by its original content.
C17_InterleavingHarmless ==
  (pc = "done" /\ other.pc = "done") =>
    \A p \in DOMAIN orig :
      Document(p) =>
        fs[p] \in {orig[p], C7_Template(TitleOf(p)) \o orig[p]}

\* C18: at every point of the runs, as long as no grep and no cat has
\* failed to read its file, every .md/.mdx file of the initial tree holds
\* its original content, or the whole header for its own title followed
\* by the whole of its original content.
C18_NeverPartial ==
  ~readFailed =>
    \A p \in DOMAIN orig :
      (orig[p] # NoFile /\ MatchesName(p.name)) =>
        fs[p] \in {orig[p], C7_Template(TitleOf(p)) \o orig[p]}

\* Between cat and mv: the new content stands complete in temp_file and
\* the file itself is still the original.
C18_Witness ==
  /\ pc = "mv"
  /\ ~readFailed
  /\ fs[file] = orig[file]
  /\ fs[file] # NoFile
  /\ fs[TempPath(cwd)] = C7_Template(TitleOf(file)) \o orig[file]

\* The lines of content c: what stands between the newlines (a last line
\* need not end in one).
RECURSIVE Lines(_)
Lines(c) ==
  IF c = <<>> THEN <<>>
  ELSE IF \E i \in 1..Len(c) : c[i] = NL
       THEN LET i == CHOOSE i \in 1..Len(c) :
                       c[i] = NL /\ \A j \in 1..(i-1) : c[j] # NL
            IN <<SubSeq(c, 1, i - 1)>> \o Lines(SubSeq(c, i + 1, Len(c)))
       ELSE <<c>>

\* Some line of c, wherever it stands, begins with three hyphens.
SomeLineBeginsWithHyphens(c) ==
  \E k \in 1..Len(Lines(c)) : IsPrefix(<<"-","-","-">>, Lines(c)[k])

C20_Stem(n) ==
  LET d == CHOOSE i \in 1..Len(n) :
             n[i] = "." /\ \A j \in (i+1)..Len(n) : n[j] # "."
  IN SubSeq(n, 1, d - 1)

\* What becomes of the character at place i of s: a hyphen before a
\* lowercase letter is dropped, a lowercase letter at the start or after
\* a hyphen is put in upper case, any other hyphen becomes a space, and
\* every other character stays.
C20_At(s, i) ==
  IF s[i] = Hy
  THEN IF i < Len(s) /\ IsLower(s[i+1]) THEN <<>> ELSE <<" ">>
  ELSE IF IsLower(s[i]) /\ (IF i = 1 THEN TRUE ELSE s[i-1] = Hy)
       THEN <<ToUpper(s[i])>>
       ELSE <<s[i]>>

RECURSIVE C20_From(_, _)
C20_From(s, i) ==
  IF i > Len(s) THEN <<>> ELSE C20_At(s, i) \o C20_From(s, i + 1)

\* C20: the title of a file is its name without the last extension, with
\* every (start or hyphen) + lowercase letter replaced by the letter in
\* upper case and every hyphen that is left replaced by a space;
\* underscores, dots, digits and uppercase letters are kept.
C20_TitleAsDescribed ==
  \A p \in DOMAIN examined :
    examined[p] = C20_From(C20_Stem(p.name), 1)

\* C21: when a run has completed, the paths that name a file are the
\* paths that named a file when the run started: the run has created no
\* file and removed none.
C21_SamePaths ==
  pc = "done" =>
    { p \in DOMAIN fs : fs[p] # NoFile }
      = { p \in DOMAIN snap : snap[p] # NoFile }

====
